---- MODULE Spec2Model ----
(***************************************************************************)
(* Home assistant: the tool-invocation loop of the OpenAI and Claude       *)
(* orchestrators (server/llm), the IoT controller that dispatches tool     *)
(* calls (mcp_iot/server.py) and the three simulated devices               *)
(* (mcp_iot/devices).                                                      *)
(*                                                                         *)
(* Python values are modelled as follows.  A dict is a function whose      *)
(* domain is its key set (a record); the empty dict is << >>.  A list is   *)
(* a sequence.  None in a string-typed slot is the string None.  Korean    *)
(* message texts are replaced by short ASCII tags, one per f-string.       *)
(***************************************************************************)
EXTENDS Integers, Sequences, FiniteSets, TLC

(***************************************************************************)
(* Helpers for Python dicts and numbers                                    *)
(***************************************************************************)
None == "None"

EmptyDict == << >>

\* dict.get(key, default)
Get(d, key, default) == IF key \in DOMAIN d THEN d[key] ELSE default

\* `not d.get(key)` for a string-valued key: absent (None) or empty string
Falsy(d, key) == key \notin DOMAIN d \/ d[key] = ""

\* The dict holding the entries of d whose key is in keys
Restrict(d, keys) == [k \in (DOMAIN d) \cap keys |-> d[k]]

Min(a, b) == IF a < b THEN a ELSE b

Max(a, b) == IF a > b THEN a ELSE b

\* A parameter value that a caller may give with any type carries its Python
\* type: Num(40) is the number 40, Str("40") the string "40"
Num(n) == [num |-> n]

Str(s) == [str |-> s]

\* isinstance(v, (int, float))
IsNumber(v) == "num" \in DOMAIN v

\* json.dumps / json.loads: a dict and its JSON text are different values
JsonDumps(v) == [json |-> v]

JsonLoads(s) == s.json

(***************************************************************************)
(* common/models.py                                                        *)
(***************************************************************************)
IoTCommand(device, action, parameters) ==
    [device |-> device, action |-> action, parameters |-> parameters]

IoTResult(success, message, data) ==
    [success |-> success, message |-> message, data |-> data]

LLMResponse(text, commands) == [text |-> text, commands |-> commands]

(***************************************************************************)
(* mcp_iot/devices/base.py: how a call of BaseDevice.execute ends: with the *)
(* device as the call left it and either the IoTResult returned or the      *)
(* exception raised                                                        *)
(***************************************************************************)
DeviceReturns(dev, result) ==
    [dev |-> dev, raised |-> FALSE, error |-> None, result |-> result]

DeviceRaises(dev, kind) ==
    [dev |-> dev, raised |-> TRUE, error |-> kind, result |-> EmptyDict]

\* An else branch that reports success
UnknownActionAccepted(self) ==
    DeviceReturns(self, IoTResult(TRUE, "unknown_action", EmptyDict))

\* The else branch of every execute: an action the device does not know
UnknownAction(self) ==
    DeviceReturns(self, IoTResult(FALSE, "unknown_action", EmptyDict))

(***************************************************************************)
(* mcp_iot/devices/light.py                                                *)
(***************************************************************************)
Light(room) == [room |-> room, power |-> "off", brightness |-> 0]

LightGetState(self) ==
    [room |-> self.room, power |-> self.power, brightness |-> self.brightness]

\* A clamp that forgets the upper limit
LightClampNoCeiling(brightness) == Max(0, brightness)

\* clamp of set_brightness: max(0, min(100, brightness))
LightClamp(brightness) == Max(0, Min(100, brightness))

\* Switching on without touching the brightness
TurnOnKeepsBrightness(self) == [self EXCEPT !.power = "on"]

\* action on: _power = "on", _brightness = 100
TurnOn(self) == [self EXCEPT !.power = "on", !.brightness = 100]

\* Switching off without touching the brightness
TurnOffKeepsBrightness(self) == [self EXCEPT !.power = "off"]

\* action off: _power = "off", _brightness = 0
TurnOff(self) == [self EXCEPT !.power = "off", !.brightness = 0]

\* Light.execute: the light after the command and the IoTResult returned, or
\* the exception raised.  min(100, brightness) raises TypeError when brightness
\* is not a number.
LightExecute(self, command) ==
    LET action == command.action
        params == command.parameters
    IN  IF action = "on" THEN
            LET s == TurnOn(self)
            IN  DeviceReturns(s, IoTResult(TRUE, "light_on", LightGetState(s)))
        ELSE IF action = "off" THEN
            LET s == TurnOff(self)
            IN  DeviceReturns(s, IoTResult(TRUE, "light_off", LightGetState(s)))
        ELSE IF action = "set_brightness" THEN
            LET requested == Get(params, "brightness", Num(100))
            IN  IF ~IsNumber(requested) THEN DeviceRaises(self, "TypeError")
                ELSE
                    LET brightness == LightClamp(requested.num)
                        s == [self EXCEPT !.brightness = brightness,
                                          !.power = IF brightness > 0 THEN "on" ELSE "off"]
                    IN  DeviceReturns(s, IoTResult(TRUE, "light_brightness_set",
                                                   LightGetState(s)))
        ELSE
            UnknownAction(self)

(***************************************************************************)
(* mcp_iot/devices/alarm.py                                                *)
(***************************************************************************)
Alarm == [alarms |-> << >>]

AlarmGetState(self) == [alarms |-> self.alarms]

\* A cancel that removes only the first entry with the time
RECURSIVE AlarmsWithoutFirst(_, _)
AlarmsWithoutFirst(alarms, time) ==
    IF alarms = << >> THEN << >>
    ELSE IF Head(alarms).time # time
         THEN << Head(alarms) >> \o AlarmsWithoutFirst(Tail(alarms), time)
         ELSE Tail(alarms)

\* [a for a in self._alarms if a["time"] != time]
RECURSIVE AlarmsWithout(_, _)
AlarmsWithout(alarms, time) ==
    IF alarms = << >> THEN << >>
    ELSE IF Head(alarms).time # time
         THEN << Head(alarms) >> \o AlarmsWithout(Tail(alarms), time)
         ELSE AlarmsWithout(Tail(alarms), time)

\* An alarm entry that loses the requested time
NewAlarmWithoutTime(params, now) ==
    [time |-> "", label |-> Get(params, "label", ""), enabled |-> TRUE,
     created_at |-> now]

\* The entry action set builds; now is datetime.now() at the call
NewAlarm(params, now) ==
    [time |-> params.time, label |-> Get(params, "label", ""), enabled |-> TRUE,
     created_at |-> now]

\* A new alarm put in front of the others
AlarmsPrepend(alarms, alarm) == << alarm >> \o alarms

\* self._alarms.append(alarm)
AlarmsAppend(alarms, alarm) == Append(alarms, alarm)

\* Alarm.execute; now is the value of datetime.now() at the call
AlarmExecute(self, command, now) ==
    LET action == command.action
        params == command.parameters
    IN  IF action = "set" THEN
            IF Falsy(params, "time") THEN
                DeviceReturns(self, IoTResult(FALSE, "alarm_time_required", EmptyDict))
            ELSE
                LET alarm == NewAlarm(params, now)
                IN  DeviceReturns([self EXCEPT !.alarms = AlarmsAppend(@, alarm)],
                                  IoTResult(TRUE, "alarm_set", [alarm |-> alarm]))
        ELSE IF action = "cancel" THEN
            IF Falsy(params, "time") THEN
                DeviceReturns(self,
                              IoTResult(FALSE, "alarm_cancel_time_required", EmptyDict))
            ELSE
                LET original_count == Len(self.alarms)
                    s == [self EXCEPT !.alarms = AlarmsWithout(@, params.time)]
                IN  IF Len(s.alarms) < original_count
                    THEN DeviceReturns(s, IoTResult(TRUE, "alarm_cancelled",
                                                    AlarmGetState(s)))
                    ELSE DeviceReturns(s, IoTResult(FALSE, "alarm_not_found", EmptyDict))
        ELSE IF action = "list" THEN
            DeviceReturns(self, IoTResult(TRUE, "alarm_count", [alarms |-> self.alarms]))
        ELSE
            UnknownAction(self)

(***************************************************************************)
(* mcp_iot/devices/thermostat.py                                           *)
(***************************************************************************)
\* The modes with one the thermostat does not have
ThermostatModesAndTurbo == {"off", "heating", "cooling", "auto", "turbo"}

ThermostatModes == {"off", "heating", "cooling", "auto"}

Thermostat == [current_temp |-> 22, target_temp |-> 22, mode |-> "auto"]

ThermostatGetState(self) ==
    [current_temp |-> self.current_temp, target_temp |-> self.target_temp,
     mode |-> self.mode]

\* The strings float() parses, with their values, among those the model uses
Numerals == [s \in {"25", "50"} |-> IF s = "25" THEN 25 ELSE 50]

\* Whether float(v) returns: v is a number or a numeral; ValueError otherwise
FloatParses(v) == IsNumber(v) \/ v.str \in DOMAIN Numerals

\* float(v)
Float(v) == IF IsNumber(v) THEN v.num ELSE Numerals[v.str]

\* A clamp that forgets the lower limit
ThermostatClampNoFloor(temp) == Min(35, temp)

\* clamp of set_temp: max(10, min(35, temp))
ThermostatClamp(temp) == Max(10, Min(35, temp))

\* Switching off that also forgets the target temperature
ThermostatOffResetsTarget(self) == [self EXCEPT !.mode = "off", !.target_temp = 0]

\* action off: _mode = "off"
ThermostatOff(self) == [self EXCEPT !.mode = "off"]

\* Thermostat.execute: float(temp) raises ValueError when temp is no numeral
ThermostatExecute(self, command) ==
    LET action == command.action
        params == command.parameters
    IN  IF action = "set_temp" THEN
            IF "temperature" \notin DOMAIN params THEN
                DeviceReturns(self, IoTResult(FALSE, "temperature_required", EmptyDict))
            ELSE IF ~FloatParses(params.temperature) THEN
                DeviceRaises(self, "ValueError")
            ELSE
                LET temp == ThermostatClamp(Float(params.temperature))
                    s == [self EXCEPT !.target_temp = temp,
                                      !.mode = IF @ = "off" THEN "auto" ELSE @]
                IN  DeviceReturns(s, IoTResult(TRUE, "temperature_set",
                                               ThermostatGetState(s)))
        ELSE IF action = "set_mode" THEN
            LET mode == Get(params, "mode", None)
            IN  IF mode \notin ThermostatModes THEN
                    DeviceReturns(self, IoTResult(FALSE, "unsupported_mode", EmptyDict))
                ELSE
                    LET s == [self EXCEPT !.mode = mode]
                    IN  DeviceReturns(s, IoTResult(TRUE, "mode_set",
                                                   ThermostatGetState(s)))
        ELSE IF action = "off" THEN
            LET s == ThermostatOff(self)
            IN  DeviceReturns(s, IoTResult(TRUE, "thermostat_off", ThermostatGetState(s)))
        ELSE
            UnknownAction(self)

(***************************************************************************)
(* mcp_iot/server.py: IoTController                                        *)
(***************************************************************************)
Rooms == {"living_room", "bedroom", "kitchen"}

\* The display name each Light is constructed with (Korean in the source)
RoomName(room) ==
    CASE room = "living_room" -> "geosil"
      [] room = "bedroom" -> "chimsil"
      [] room = "kitchen" -> "jubang"

\* IoTController.__init__
IoTController ==
    [lights |-> [room \in Rooms |-> Light(RoomName(room))],
     alarm |-> Alarm,
     thermostat |-> Thermostat]

\* IoTController.get_tools: the names of the tool catalog
ToolNames == {"control_light", "control_alarm", "control_thermostat", "get_device_status"}

\* IoTController.get_tools: the enum of each property that has one, by tool name
GetTools ==
    [control_light |-> [room |-> {"living_room", "bedroom", "kitchen"},
                        action |-> {"on", "off", "set_brightness"}],
     control_alarm |-> [action |-> {"set", "cancel", "list"}],
     control_thermostat |-> [action |-> {"set_temp", "set_mode", "off"},
                             mode |-> {"heating", "cooling", "auto"}],
     get_device_status |-> EmptyDict]

\* The values the catalog allows for a parameter of a tool
ToolEnum(name, parameter) == GetTools[name][parameter]

\* The tool that controls the devices of a type: "control_" + device_type
ToolOf(device_type) ==
    CASE device_type = "light" -> "control_light"
      [] device_type = "alarm" -> "control_alarm"
      [] device_type = "thermostat" -> "control_thermostat"

\* IoTController.get_all_states
GetAllStates(self) ==
    [lights |-> [room \in DOMAIN self.lights |-> LightGetState(self.lights[room])],
     alarm |-> AlarmGetState(self.alarm),
     thermostat |-> ThermostatGetState(self.thermostat)]

\* An exception of execute leaves control_* uncaught; the controller is as the
\* device left it
ControlRaises(self, kind) == [ctl |-> self, raised |-> TRUE, error |-> kind]

\* control_light that runs the command on the light of every room
ControlLightEveryRoom(self, kw) ==
    IF kw.room \notin DOMAIN self.lights THEN
        [ctl |-> self, result |-> [success |-> FALSE, message |-> "unknown_room"]]
    ELSE
        LET params == Restrict(kw, {"brightness"})
            command == IoTCommand("light", kw.action, params)
            r == LightExecute(self.lights[kw.room], command)
        IN  IF r.raised THEN ControlRaises(self, r.error)
            ELSE [ctl |-> [self EXCEPT !.lights =
                               [room \in DOMAIN self.lights |->
                                   LightExecute(self.lights[room], command).dev]],
                  result |-> [success |-> r.result.success,
                              message |-> r.result.message,
                              state |-> r.result.data]]

\* IoTController.control_light(**kw); kw holds room and action, and brightness
\* unless it is None
ControlLight(self, kw) ==
    IF kw.room \notin DOMAIN self.lights THEN
        [ctl |-> self, result |-> [success |-> FALSE, message |-> "unknown_room"]]
    ELSE
        LET params == Restrict(kw, {"brightness"})
            command == IoTCommand("light", kw.action, params)
            r == LightExecute(self.lights[kw.room], command)
        IN  IF r.raised THEN ControlRaises(self, r.error)
            ELSE [ctl |-> [self EXCEPT !.lights[kw.room] = r.dev],
                  result |-> [success |-> r.result.success,
                              message |-> r.result.message,
                              state |-> r.result.data]]

\* IoTController.control_alarm(**kw): time and label are passed on when truthy
ControlAlarm(self, kw, now) ==
    LET params == Restrict(kw, {k \in {"time", "label"} : ~Falsy(kw, k)})
        command == IoTCommand("alarm", kw.action, params)
        r == AlarmExecute(self.alarm, command, now)
    IN  [ctl |-> [self EXCEPT !.alarm = r.dev],
         result |-> [success |-> r.result.success, message |-> r.result.message,
                     data |-> r.result.data]]

\* control_thermostat that forgets to pass mode on
ControlThermostatDropsMode(self, kw) ==
    LET params == Restrict(kw, {"temperature"})
        command == IoTCommand("thermostat", kw.action, params)
        r == ThermostatExecute(self.thermostat, command)
    IN  [ctl |-> [self EXCEPT !.thermostat = r.dev],
         result |-> [success |-> r.result.success, message |-> r.result.message,
                     state |-> r.result.data]]

\* IoTController.control_thermostat(**kw): temperature is passed on unless None,
\* mode when truthy
ControlThermostat(self, kw) ==
    LET params == Restrict(kw, {"temperature"} \cup
                               {k \in {"mode"} : ~Falsy(kw, k)})
        command == IoTCommand("thermostat", kw.action, params)
        r == ThermostatExecute(self.thermostat, command)
    IN  IF r.raised THEN ControlRaises(self, r.error)
        ELSE [ctl |-> [self EXCEPT !.thermostat = r.dev],
              result |-> [success |-> r.result.success, message |-> r.result.message,
                          state |-> r.result.data]]

(***************************************************************************)
(* server/llm: _execute_tool, the same code in OpenAILLM and ClaudeLLM      *)
(***************************************************************************)
\* Whether the call f(**arguments) binds: every parameter without a default is
\* given and no keyword is unexpected.  Python raises TypeError otherwise.
Binds(arguments, required, accepted) ==
    required \subseteq DOMAIN arguments /\ DOMAIN arguments \subseteq accepted

Raised(self, kind) == [ctl |-> self, raised |-> TRUE, error |-> kind, result |-> EmptyDict]

\* control_* returned its envelope, or the exception of execute passes through
Returned(r) ==
    IF "raised" \in DOMAIN r
    THEN Raised(r.ctl, r.error)
    ELSE [ctl |-> r.ctl, raised |-> FALSE, error |-> None, result |-> r.result]

\* A status read that builds the registry anew
GetDeviceStatusResets(self) ==
    [ctl |-> IoTController,
     result |-> [success |-> TRUE, message |-> "status_done",
                 states |-> GetAllStates(IoTController)]]

\* The get_device_status branch: the envelope around get_all_states()
GetDeviceStatus(self) ==
    [ctl |-> self,
     result |-> [success |-> TRUE, message |-> "status_done",
                 states |-> GetAllStates(self)]]

\* _execute_tool(name, arguments) on controller self
ExecuteTool(self, name, arguments, now) ==
    IF name = "control_light" THEN
        IF Binds(arguments, {"room", "action"}, {"room", "action", "brightness"})
        THEN Returned(ControlLight(self, arguments))
        ELSE Raised(self, "TypeError")
    ELSE IF name = "control_alarm" THEN
        IF Binds(arguments, {"action"}, {"action", "time", "label"})
        THEN Returned(ControlAlarm(self, arguments, now))
        ELSE Raised(self, "TypeError")
    ELSE IF name = "control_thermostat" THEN
        IF Binds(arguments, {"action"}, {"action", "temperature", "mode"})
        THEN Returned(ControlThermostat(self, arguments))
        ELSE Raised(self, "TypeError")
    ELSE IF name = "get_device_status" THEN
        Returned(GetDeviceStatus(self))
    ELSE
        Returned([ctl |-> self,
                  result |-> [success |-> FALSE, message |-> "unknown_tool"]])

(***************************************************************************)
(* The model provider.  A normalised response is [text |-> s] or            *)
(* [tool_calls |-> <<[id, name, arguments], ...>>]; each SDK delivers it in *)
(* its native shape.                                                       *)
(***************************************************************************)
Providers == {"openai", "claude"}

\* chat.completions.create(...).choices[0]; the finish reason is tool_calls
\* unless the response names another
OpenAIChoice(n) ==
    IF "tool_calls" \in DOMAIN n THEN
        [finish_reason |-> Get(n, "reason", "tool_calls"),
         message |-> [content |-> None,
                      tool_calls |-> [i \in DOMAIN n.tool_calls |->
                          [id |-> n.tool_calls[i].id,
                           function |-> [name |-> n.tool_calls[i].name,
                                         arguments |-> JsonDumps(n.tool_calls[i].arguments)]]]]]
    ELSE
        [finish_reason |-> "stop",
         message |-> [content |-> n.text, tool_calls |-> << >>]]

\* messages.create(...); the stop reason is tool_use unless the response names
\* another
ClaudeMessage(n) ==
    IF "tool_calls" \in DOMAIN n THEN
        [stop_reason |-> Get(n, "reason", "tool_use"),
         content |-> [i \in DOMAIN n.tool_calls |->
                         [type |-> "tool_use", id |-> n.tool_calls[i].id,
                          name |-> n.tool_calls[i].name,
                          input |-> n.tool_calls[i].arguments]]]
    ELSE
        [stop_reason |-> "end_turn",
         content |-> << [type |-> "text", text |-> n.text] >>]

NativeResponse(p, n) == IF p = "openai" THEN OpenAIChoice(n) ELSE ClaudeMessage(n)

(***************************************************************************)
(* server/llm: process_async of OpenAILLM (p = "openai") and ClaudeLLM      *)
(***************************************************************************)
SYSTEM_PROMPT == "system_prompt"

\* The message list before the first provider call
SeedMessages(p, text, context) ==
    (IF p = "openai" THEN << [role |-> "system", content |-> SYSTEM_PROMPT] >> ELSE << >>)
    \o context
    \o << [role |-> "user", content |-> text] >>

\* A Claude loop that never takes a response for a tool turn
WantsToolsOpenAIOnly(p, response) ==
    /\ p = "openai"
    /\ response.finish_reason = "tool_calls"
    /\ response.message.tool_calls # << >>

\* The condition of the while loop
WantsTools(p, response) ==
    IF p = "openai"
    THEN response.finish_reason = "tool_calls" /\ response.message.tool_calls # << >>
    ELSE response.stop_reason = "tool_use"

IsToolUse(block) == block.type = "tool_use"

\* The tool calls the for loop iterates over, as (id, name, arguments)
ToolUses(p, response) ==
    IF p = "openai" THEN
        [i \in DOMAIN response.message.tool_calls |->
            [id |-> response.message.tool_calls[i].id,
             name |-> response.message.tool_calls[i].function.name,
             arguments |-> JsonLoads(response.message.tool_calls[i].function.arguments)]]
    ELSE
        LET tool_uses == SelectSeq(response.content, IsToolUse)
        IN  [i \in DOMAIN tool_uses |->
                [id |-> tool_uses[i].id, name |-> tool_uses[i].name,
                 arguments |-> tool_uses[i].input]]

\* An assistant message that keeps the text of the response and drops its
\* tool-call requests
AssistantMessageWithoutCalls(p, response) ==
    IF p = "openai" THEN
        [role |-> "assistant", content |-> response.message.content]
    ELSE
        [role |-> "assistant",
         content |-> SelectSeq(response.content, LAMBDA block : block.type = "text")]

\* The assistant message appended at the start of a tool turn
AssistantMessage(p, response) ==
    IF p = "openai" THEN
        [role |-> "assistant", content |-> response.message.content,
         tool_calls |-> [i \in DOMAIN response.message.tool_calls |->
             [id |-> response.message.tool_calls[i].id, type |-> "function",
              function |-> response.message.tool_calls[i].function]]]
    ELSE
        [role |-> "assistant", content |-> response.content]

\* A recorded device that is the tool name as it came
StripNothing(name) == name

\* name.replace("control_", "") on the tool names of the model
StripControl(name) ==
    CASE name = "control_light" -> "light"
      [] name = "control_alarm" -> "alarm"
      [] name = "control_thermostat" -> "thermostat"
      [] name = "control_unknown" -> "unknown"
      [] OTHER -> name

\* The IoTCommand recorded for a tool call
RecordedCommand(name, arguments) ==
    IoTCommand(StripControl(name), Get(arguments, "action", "unknown"), arguments)

\* Recording only the commands that succeeded
RecordedIfSuccess(commands, tool_call, result) ==
    IF result.success
    THEN Append(commands, RecordedCommand(tool_call.name, tool_call.arguments))
    ELSE commands

\* Recording only the calls of control_ tools
RecordedControlOnly(commands, tool_call, result) ==
    IF tool_call.name \in {"control_light", "control_alarm", "control_thermostat"}
    THEN Append(commands, RecordedCommand(tool_call.name, tool_call.arguments))
    ELSE commands

\* executed_commands.append(IoTCommand(...)) after _execute_tool returned result
Recorded(commands, tool_call, result) ==
    Append(commands, RecordedCommand(tool_call.name, tool_call.arguments))

\* The tool-result entry built for one tool call
ToolResult(p, id, result) ==
    IF p = "openai"
    THEN [role |-> "tool", tool_call_id |-> id, content |-> JsonDumps(result)]
    ELSE [type |-> "tool_result", tool_use_id |-> id, content |-> JsonDumps(result)]

\* A final text that is never filled in
FinalTextDropped(p, response) == ""

\* The final text taken from the response that ends the loop
FinalText(p, response) ==
    IF p = "openai" THEN
        IF response.message.content = None THEN "" ELSE response.message.content
    ELSE
        LET texts == {i \in DOMAIN response.content : response.content[i].type = "text"}
        IN  IF texts = {} THEN ""
            ELSE response.content[CHOOSE i \in texts : \A j \in texts : i <= j].text

(***************************************************************************)
(* Bounds and inputs of the model                                          *)
(***************************************************************************)
\* Conversations (chat requests) that may be in flight at once
NumConv == 2

\* Tool-call requests the provider issues over one run, all turns together
MaxToolCalls == 3

\* Tool-call requests all conversations together receive when several run at once
ConcToolCalls == 3

Convs == 1 .. NumConv

UserTexts == {"user_text"}

Texts == {"text_a", "text_b"}

Contexts == {<< >>, << [role |-> "user", content |-> "earlier"] >>}

\* The (name, arguments) pairs the provider requests in a single run
ToolCallPool ==
    { [name |-> "control_light", arguments |-> [room |-> "living_room", action |-> "on"]],
      [name |-> "control_light", arguments |-> [action |-> "on"]],
      [name |-> "control_light", arguments |-> [room |-> "garage", action |-> "on"]],
      [name |-> "control_light", arguments |-> [room |-> "bedroom", action |-> "blink"]],
      [name |-> "control_alarm", arguments |-> [action |-> "set"]],
      [name |-> "control_thermostat", arguments |-> [action |-> "set_mode", mode |-> "cooling"]],
      [name |-> "control_unknown", arguments |-> EmptyDict],
      [name |-> "get_device_status", arguments |-> EmptyDict] }

\* The pairs requested when several conversations run at once
ConcPool ==
    { [name |-> "control_alarm", arguments |-> [action |-> "set", time |-> "07:00"]],
      [name |-> "control_alarm", arguments |-> [action |-> "cancel", time |-> "07:00"]],
      [name |-> "control_light", arguments |-> [room |-> "kitchen", action |-> "set_brightness",
                                                 brightness |-> Num(40)]] }

\* The two IoTController instances of the server process
LlmController == "llm"

RestController == "rest"

\* An orchestrator that builds a new IoTController for every tool call
FreshRegistry(ctls) == IoTController

\* An orchestrator whose tool calls work on a copy of the alarm taken at
\* start-up
StaleAlarmRegistry(ctls) == [ctls[LlmController] EXCEPT !.alarm = Alarm]

\* self._iot_controller of the orchestrator: the instance _execute_tool acts on
LlmRegistry(ctls) == ctls[LlmController]

(***************************************************************************)
(* State                                                                   *)
(***************************************************************************)
VARIABLES
    provider,           \* settings.llm_provider
    controllers,        \* the IoTController instances, by owner
    clock,              \* datetime.now()
    last_status,        \* the body of the last GET /api/devices reply
    pc,                 \* where each conversation is
    context,            \* the caller's context list
    messages,           \* process_async: messages
    executed_commands,  \* process_async: executed_commands
    response,           \* process_async: the provider response being handled
    pending,            \* the tool calls of the turn not yet executed
    tool_results,       \* ClaudeLLM.process_async: tool_results
    outcome,            \* what process_async returned
    error,              \* the exception process_async ended with
    turns,              \* how each provider call of the run ended, in order
    received,           \* every tool-call request received in the run, in order
    dispatched,         \* every _execute_tool call that returned: (tool call, result)
    provider_calls,     \* provider calls issued in the run
    device,             \* a device object used on its own, as the device tests do
    executed,           \* every execute call made on it, in order
    request,            \* the body of the POST /api/chat request of each conversation
    active_connections, \* ConnectionManager.active_connections
    handler,            \* where handle_websocket is, for each WebSocket
    handler_error,      \* the exception handle_websocket ended with
    frames,             \* what receive_json returned on each WebSocket, in order
    sent                \* the replies send_json delivered on each WebSocket, in order

vars == << provider, controllers, clock, last_status, pc, context, messages,
           executed_commands, response, pending, tool_results, outcome, error,
           turns, received, dispatched, provider_calls, device, executed,
           request, active_connections, handler, handler_error, frames, sent >>

\* The state of the WebSocket endpoint
wsvars == << active_connections, handler, handler_error, frames, sent >>

NoResponse == [none |-> TRUE]

NoOutcome == [none |-> TRUE]

NoDevice == [device_type |-> None]

NoRequest == [none |-> TRUE]

NoError == [none |-> TRUE]

\* The server process after start-up, no request received yet
InitServer ==
    /\ provider \in Providers
    /\ controllers = [o \in {LlmController, RestController} |-> IoTController]
    /\ clock = 0
    /\ last_status = NoResponse
    /\ pc = [c \in Convs |-> "idle"]
    /\ context = [c \in Convs |-> << >>]
    /\ messages = [c \in Convs |-> << >>]
    /\ executed_commands = [c \in Convs |-> << >>]
    /\ response = [c \in Convs |-> NoResponse]
    /\ pending = [c \in Convs |-> << >>]
    /\ tool_results = [c \in Convs |-> << >>]
    /\ outcome = [c \in Convs |-> NoOutcome]
    /\ error = [c \in Convs |-> None]
    /\ turns = [c \in Convs |-> << >>]
    /\ received = [c \in Convs |-> << >>]
    /\ dispatched = [c \in Convs |-> << >>]
    /\ provider_calls = [c \in Convs |-> 0]
    /\ request = [c \in Convs |-> NoRequest]
    /\ active_connections = << >>
    /\ handler = [c \in Convs |-> "closed"]
    /\ handler_error = [c \in Convs |-> NoError]
    /\ frames = [c \in Convs |-> << >>]
    /\ sent = [c \in Convs |-> << >>]

Init ==
    /\ InitServer
    /\ device = NoDevice
    /\ executed = << >>

(***************************************************************************)
(* Actions                                                                 *)
(***************************************************************************)
\* A history built on the caller's list itself: what is appended to the
\* messages shows in the caller's context
CallerContextAliased(ctx, msgs) == msgs

\* The caller's context list once messages were built from it:
\* messages.extend(context) copies the entries into the new list
CallerContext(ctx, msgs) == ctx

\* A transport handler calls get_llm().process_async(text, ctx): the messages
\* are seeded and the first provider call is issued.
Start(c, text, ctx) ==
    /\ pc[c] = "idle"
    /\ context' = [context EXCEPT
                       ![c] = CallerContext(ctx, SeedMessages(provider, text, ctx))]
    /\ messages' = [messages EXCEPT ![c] = SeedMessages(provider, text, ctx)]
    /\ executed_commands' = [executed_commands EXCEPT ![c] = << >>]
    /\ provider_calls' = [provider_calls EXCEPT ![c] = 1]
    /\ pc' = [pc EXCEPT ![c] = "awaiting"]
    /\ UNCHANGED << wsvars, request, device, executed, provider, controllers, clock, last_status, response, pending,
                    tool_results, outcome, error, turns, received, dispatched >>

\* A history cut down to its last message when a tool turn closes
CloseTurnKeepsLast(p, msgs, results) ==
    LET closed == IF p = "claude" THEN Append(msgs, [role |-> "user", content |-> results])
                  ELSE msgs
    IN  << closed[Len(closed)] >>

\* The messages after the for loop of a tool turn: ClaudeLLM appends the one
\* user message holding the turn's tool results, OpenAILLM appended each already.
CloseTurn(p, msgs, results) ==
    IF p = "claude" THEN Append(msgs, [role |-> "user", content |-> results]) ELSE msgs

\* The awaited provider call returns the normalised response n.
ProviderReturns(c, n) ==
    /\ pc[c] = "awaiting"
    /\ LET r == NativeResponse(provider, n)
       IN  /\ response' = [response EXCEPT ![c] = r]
           /\ turns' = [turns EXCEPT ![c] = Append(@, n)]
           /\ IF WantsTools(provider, r) THEN
                  LET uses == ToolUses(provider, r)
                      msgs == Append(messages[c], AssistantMessage(provider, r))
                  IN  /\ received' = [received EXCEPT ![c] = @ \o uses]
                      /\ pending' = [pending EXCEPT ![c] = uses]
                      /\ tool_results' = [tool_results EXCEPT ![c] = << >>]
                      /\ IF uses = << >> THEN
                             /\ messages' = [messages EXCEPT
                                                ![c] = CloseTurn(provider, msgs, << >>)]
                             /\ provider_calls' = [provider_calls EXCEPT ![c] = @ + 1]
                             /\ pc' = [pc EXCEPT ![c] = "awaiting"]
                         ELSE
                             /\ messages' = [messages EXCEPT ![c] = msgs]
                             /\ pc' = [pc EXCEPT ![c] = "executing"]
                             /\ UNCHANGED provider_calls
                      /\ UNCHANGED outcome
              ELSE
                  /\ outcome' = [outcome EXCEPT
                        ![c] = LLMResponse(FinalText(provider, r), executed_commands[c])]
                  /\ pc' = [pc EXCEPT ![c] = "done"]
                  /\ UNCHANGED << messages, received, pending, tool_results,
                                  provider_calls >>
    /\ UNCHANGED << wsvars, request, device, executed, provider, controllers, clock, last_status, context,
                    executed_commands, error, dispatched >>

\* A provider failure caught and turned into a partial reply
ProviderFailsSwallowed(c) ==
    /\ pc[c] = "awaiting"
    /\ pc' = [pc EXCEPT ![c] = "done"]
    /\ outcome' = [outcome EXCEPT ![c] = LLMResponse("", executed_commands[c])]
    /\ turns' = [turns EXCEPT ![c] = Append(@, [failure |-> "ProviderError"])]
    /\ UNCHANGED << wsvars, request, device, executed, provider, controllers, clock, last_status, context, messages,
                    executed_commands, response, pending, tool_results, error,
                    received, dispatched, provider_calls >>

\* A provider failure that undoes the tool calls of the run
ProviderFailsRollsBack(c) ==
    /\ pc[c] = "awaiting"
    /\ pc' = [pc EXCEPT ![c] = "error"]
    /\ error' = [error EXCEPT ![c] = "ProviderError"]
    /\ turns' = [turns EXCEPT ![c] = Append(@, [failure |-> "ProviderError"])]
    /\ controllers' = [controllers EXCEPT ![LlmController] = IoTController]
    /\ UNCHANGED << wsvars, request, device, executed, provider, clock, last_status, context,
                    messages, executed_commands, response, pending, tool_results,
                    outcome, received, dispatched, provider_calls >>

\* The awaited provider call raises: nothing catches it.
ProviderFails(c) ==
    /\ pc[c] = "awaiting"
    /\ pc' = [pc EXCEPT ![c] = "error"]
    /\ error' = [error EXCEPT ![c] = "ProviderError"]
    /\ turns' = [turns EXCEPT ![c] = Append(@, [failure |-> "ProviderError"])]
    /\ UNCHANGED << wsvars, request, device, executed, provider, controllers, clock, last_status, context, messages,
                    executed_commands, response, pending, tool_results, outcome,
                    received, dispatched, provider_calls >>

\* A for loop left after its first iteration
LastOfTurnAlways(calls) == TRUE

\* The for loop ends with the iteration that takes the last of the turn's
\* tool calls; calls are those not yet executed, the current one first
LastOfTurn(calls) == Tail(calls) = << >>

\* One iteration of the for loop: execute the next tool call, record the
\* command, add the tool result; after the last one, issue the next provider call.
Dispatch(c) ==
    /\ pc[c] = "executing"
    /\ LET tool_call == Head(pending[c])
           r == ExecuteTool(LlmRegistry(controllers), tool_call.name,
                            tool_call.arguments, clock)
           entry == ToolResult(provider, tool_call.id, r.result)
           results == Append(tool_results[c], entry)
           msgs == IF provider = "openai" THEN Append(messages[c], entry)
                   ELSE messages[c]
           last == LastOfTurn(pending[c])
       IN  IF r.raised THEN
               /\ pc' = [pc EXCEPT ![c] = "error"]
               /\ error' = [error EXCEPT ![c] = r.error]
               /\ UNCHANGED << controllers, clock, messages, executed_commands,
                               pending, tool_results, dispatched, provider_calls >>
           ELSE
               /\ controllers' = [controllers EXCEPT ![LlmController] = r.ctl]
               /\ clock' = clock + 1
               /\ dispatched' = [dispatched EXCEPT
                     ![c] = Append(@, [call |-> tool_call, result |-> r.result])]
               /\ executed_commands' = [executed_commands EXCEPT
                     ![c] = Recorded(@, tool_call, r.result)]
               /\ pending' = [pending EXCEPT ![c] = Tail(@)]
               /\ tool_results' = [tool_results EXCEPT
                     ![c] = IF provider = "claude" THEN results ELSE @]
               /\ messages' = [messages EXCEPT
                     ![c] = IF last THEN CloseTurn(provider, msgs, results) ELSE msgs]
               /\ provider_calls' = [provider_calls EXCEPT
                     ![c] = IF last THEN @ + 1 ELSE @]
               /\ pc' = [pc EXCEPT ![c] = IF last THEN "awaiting" ELSE "executing"]
               /\ UNCHANGED error
    /\ UNCHANGED << wsvars, request, device, executed, provider, last_status, context, response, outcome, turns,
                    received >>

\* GET /api/devices: the states of the controller get_iot_controller() returns
GetDevices ==
    /\ last_status' = GetAllStates(controllers[RestController])
    /\ UNCHANGED << wsvars, request, device, executed, provider, controllers, clock, pc, context, messages,
                    executed_commands, response, pending, tool_results, outcome,
                    error, turns, received, dispatched, provider_calls >>

(***************************************************************************)
(* The responses the provider may give                                     *)
(***************************************************************************)
\* Sequences over S of length 1 .. n
SeqsUpTo(S, n) == UNION {[1 .. k -> S] : k \in 1 .. n}

\* The requests calls, with ids continuing those already received
WithIds(calls, first) ==
    [i \in DOMAIN calls |->
        [id |-> first + i, name |-> calls[i].name, arguments |-> calls[i].arguments]]

\* Normalised responses that keep a run within budget tool-call requests
Responses(c, pool, budget) ==
    {[text |-> t] : t \in Texts}
    \cup {[tool_calls |-> WithIds(calls, Len(received[c]))] :
              calls \in SeqsUpTo(pool, budget - Len(received[c]))}

\* One chat request at a time
Next ==
    \/ \E text \in UserTexts, ctx \in Contexts : Start(1, text, ctx)
    \/ \E n \in Responses(1, ToolCallPool, MaxToolCalls) : ProviderReturns(1, n)
    \/ ProviderFails(1)
    \/ Dispatch(1)
    \/ GetDevices

Spec == Init /\ [][Next]_vars

(***************************************************************************)
(* Several chat requests in flight on the one event loop                   *)
(***************************************************************************)
\* Tool-call requests received so far by all conversations together
RECURSIVE TotalReceived(_)
TotalReceived(cs) ==
    IF cs = {} THEN 0
    ELSE LET c == CHOOSE x \in cs : TRUE
         IN  Len(received[c]) + TotalReceived(cs \ {c})

\* Responses of at most one tool call each, within the shared budget
ConcResponses(c) ==
    {[text |-> "text_a"]}
    \cup {[tool_calls |-> WithIds(<< call >>, Len(received[c]))] :
              call \in IF TotalReceived(Convs) < ConcToolCalls THEN ConcPool ELSE {}}

\* A provider call that blocks: the coroutine keeps the event loop while it
\* waits for the response
RunningWhileAwaiting(c) == pc[c] \in {"executing", "awaiting"}

\* The coroutine of conversation c has the event loop: it runs from the return
\* of its awaited provider call to its next await, where it gives the loop up
Running(c) == pc[c] = "executing"

\* The event loop runs conversation c only while no other coroutine runs
Resumable(c) == \A d \in Convs \ {c} : ~Running(d)

ConcStart(c) == Resumable(c) /\ \E text \in UserTexts : Start(c, text, << >>)

ConcProviderReturns(c) ==
    Resumable(c) /\ \E n \in ConcResponses(c) : ProviderReturns(c, n)

ConcProviderFails(c) == Resumable(c) /\ ProviderFails(c)

ConcDispatch(c) == Resumable(c) /\ Dispatch(c)

NextConc ==
    \E c \in Convs :
        \/ ConcStart(c)
        \/ ConcProviderReturns(c)
        \/ ConcProviderFails(c)
        \/ ConcDispatch(c)

SpecConc == Init /\ [][NextConc]_vars

(***************************************************************************)
(* server/api/rest.py: POST /api/chat in front of the orchestrator         *)
(***************************************************************************)
\* Tool-call requests the provider issues over the run of one chat request
ChatToolCalls == 2

\* request.mode is any string; text and audio are the modes the handler names
ChatModes == {"text", "audio", "video"}

\* The bodies ChatRequestAPI accepts: text and audio are optional strings
ChatRequests ==
    [mode : ChatModes, text : {None, "", "user_text"}, audio : {None, "", "audio_b64"}]

\* What awaiting stt.transcribe_async gives: response.text as the service
\* returned it, or the exception of the recogniser
Transcriptions == {[text |-> ""], [text |-> "user_text"], [raised |-> "Exception"]}

\* not v, for an optional string
Not(v) == v \in {None, ""}

\* The two checks under "Validate input" raise HTTPException(400)
Invalid(req) ==
    \/ req.mode = "text" /\ Not(req.text)
    \/ req.mode = "audio" /\ Not(req.audio)

\* The handler up to its call of process_async: validation, transcription in
\* audio mode, then llm.process_async(input_text) with no context.
Chat(c, req, stt) ==
    /\ pc[c] = "idle"
    /\ request' = [request EXCEPT ![c] = req]
    /\ IF Invalid(req) THEN
           /\ pc' = [pc EXCEPT ![c] = "rejected"]
           /\ error' = [error EXCEPT ![c] = "HTTP_400"]
           /\ UNCHANGED << messages, executed_commands, provider_calls >>
       ELSE IF req.mode = "audio" /\ "raised" \in DOMAIN stt THEN
           /\ pc' = [pc EXCEPT ![c] = "error"]
           /\ error' = [error EXCEPT ![c] = stt.raised]
           /\ UNCHANGED << messages, executed_commands, provider_calls >>
       ELSE
           LET input_text == IF req.mode = "audio" THEN stt.text ELSE req.text
           IN  /\ messages' = [messages EXCEPT
                                  ![c] = SeedMessages(provider, input_text, << >>)]
               /\ executed_commands' = [executed_commands EXCEPT ![c] = << >>]
               /\ provider_calls' = [provider_calls EXCEPT ![c] = 1]
               /\ pc' = [pc EXCEPT ![c] = "awaiting"]
               /\ UNCHANGED error
    /\ UNCHANGED << wsvars, device, executed, provider, controllers, clock,
                    last_status, context, response, pending, tool_results, outcome,
                    turns, received, dispatched >>

\* The finish reasons of a chat completion, the stop reasons of a message
Reasons(p) ==
    IF p = "openai" THEN {"tool_calls", "stop", "length"}
    ELSE {"tool_use", "end_turn", "max_tokens"}

\* The pairs requested in the run of a chat request
ChatPool ==
    { [name |-> "control_light", arguments |-> [room |-> "living_room", action |-> "on"]],
      [name |-> "get_device_status", arguments |-> EmptyDict] }

\* Normalised responses: a text, or tool-call requests under any reason the
\* provider may give with them
ChatResponses(c) ==
    {[text |-> "text_a"]}
    \cup {[tool_calls |-> WithIds(calls, Len(received[c])), reason |-> reason] :
              calls \in SeqsUpTo(ChatPool, ChatToolCalls - Len(received[c])),
              reason \in Reasons(provider)}

\* One chat request over REST
NextChat ==
    \/ \E req \in ChatRequests, stt \in Transcriptions : Chat(1, req, stt)
    \/ \E n \in ChatResponses(1) : ProviderReturns(1, n)
    \/ ProviderFails(1)
    \/ Dispatch(1)

SpecChat == Init /\ [][NextChat]_vars

(***************************************************************************)
(* server/api/websocket.py: ConnectionManager and handle_websocket.  The   *)
(* WebSocket c is served by the run of conversation c.                     *)
(***************************************************************************)
\* Messages all WebSockets together hand to their handlers
MaxFrames == 2

\* What awaiting websocket.receive_json() gives: a JSON object, JSON that is
\* no object, a text that is no JSON, or the disconnect of the client
WsEvents ==
    { [json |-> [type |-> "text", content |-> "user_text", request_id |-> "req_1"]],
      [json |-> [content |-> "user_text"]],
      [json |-> [type |-> "audio", content |-> "audio_b64", request_id |-> "req_2"]],
      [array |-> TRUE],
      [invalid |-> TRUE],
      [disconnect |-> TRUE] }

\* What awaiting a send on the socket gives: it returns, or raises the
\* exception of a connection that is gone
SendOutcomes == {"sent", "WebSocketDisconnect", "RuntimeError"}

\* The pairs requested in the run of a WebSocket message
WsPool ==
    { [name |-> "control_light", arguments |-> [room |-> "living_room", action |-> "on"]],
      [name |-> "control_light", arguments |-> [action |-> "on"]] }

\* Normalised responses: a text, or one tool call in the first turn
WsResponses(c) ==
    {[text |-> "text_a"]}
    \cup {[tool_calls |-> WithIds(<< call >>, 0)] :
              call \in IF received[c] = << >> THEN WsPool ELSE {}}

\* Messages received so far on the WebSockets cs together
RECURSIVE TotalFrames(_)
TotalFrames(cs) ==
    IF cs = {} THEN 0
    ELSE LET c == CHOOSE x \in cs : TRUE
         IN  Len(frames[c]) + TotalFrames(cs \ {c})

\* ConnectionManager.disconnect
Disconnect(connections, websocket) ==
    SelectSeq(connections, LAMBDA w : w # websocket)

\* ConnectionManager.connect, then the handler awaits its first message
WsConnect(c) ==
    /\ handler[c] = "closed"
    /\ active_connections' = Append(active_connections, c)
    /\ handler' = [handler EXCEPT ![c] = "receiving"]
    /\ UNCHANGED << handler_error, frames, sent, request, device, executed, provider,
                    controllers, clock, last_status, pc, context, messages,
                    executed_commands, response, pending, tool_results, outcome,
                    error, turns, received, dispatched, provider_calls >>

\* receive_json returns or raises; a JSON object is read with data.get and
\* taken into the inner try, where audio is transcribed and process_async
\* called.  Only WebSocketDisconnect is caught around the loop.
WsReceive(c, event, stt) ==
    /\ handler[c] = "receiving"
    /\ TotalFrames(Convs) < MaxFrames
    /\ IF "disconnect" \in DOMAIN event THEN
           /\ active_connections' = Disconnect(active_connections, c)
           /\ handler' = [handler EXCEPT ![c] = "returned"]
           /\ UNCHANGED << handler_error, frames, pc, error, messages,
                           executed_commands, provider_calls >>
       ELSE IF "invalid" \in DOMAIN event THEN
           /\ handler' = [handler EXCEPT ![c] = "raised"]
           /\ handler_error' = [handler_error EXCEPT
                                   ![c] = [error |-> "JSONDecodeError", at |-> "receive"]]
           /\ UNCHANGED << active_connections, frames, pc, error, messages,
                           executed_commands, provider_calls >>
       ELSE IF "array" \in DOMAIN event THEN
           /\ frames' = [frames EXCEPT ![c] = Append(@, event)]
           /\ handler' = [handler EXCEPT ![c] = "raised"]
           /\ handler_error' = [handler_error EXCEPT
                                   ![c] = [error |-> "AttributeError", at |-> "get"]]
           /\ UNCHANGED << active_connections, pc, error, messages,
                           executed_commands, provider_calls >>
       ELSE
           LET data == event.json
               message_type == Get(data, "type", "text")
               content == Get(data, "content", "")
           IN  /\ frames' = [frames EXCEPT ![c] = Append(@, data)]
               /\ handler' = [handler EXCEPT ![c] = "processing"]
               /\ UNCHANGED << active_connections, handler_error >>
               /\ IF message_type = "audio" /\ "raised" \in DOMAIN stt THEN
                      /\ pc' = [pc EXCEPT ![c] = "error"]
                      /\ error' = [error EXCEPT ![c] = stt.raised]
                      /\ UNCHANGED << messages, executed_commands, provider_calls >>
                  ELSE
                      LET input_text == IF message_type = "audio" THEN stt.text
                                        ELSE content
                      IN  /\ messages' = [messages EXCEPT
                                 ![c] = SeedMessages(provider, input_text, << >>)]
                          /\ executed_commands' = [executed_commands EXCEPT ![c] = << >>]
                          /\ provider_calls' = [provider_calls EXCEPT ![c] = 1]
                          /\ pc' = [pc EXCEPT ![c] = "awaiting"]
                          /\ UNCHANGED error
    /\ UNCHANGED << sent, request, device, executed, provider, controllers, clock,
                    last_status, context, response, pending, tool_results, outcome,
                    turns, received, dispatched >>

\* The reply to the message being processed: the response of process_async,
\* or the error of whatever the inner try raised (synthesis in audio mode
\* included)
Reply(c, tts) ==
    LET data == frames[c][Len(frames[c])]
        request_id == Get(data, "request_id", "uuid4")
    IN  IF pc[c] = "error" THEN
            [type |-> "error", message |-> error[c], request_id |-> request_id]
        ELSE IF Get(data, "type", "text") = "audio" /\ tts = "raised" THEN
            [type |-> "error", message |-> "Exception", request_id |-> request_id]
        ELSE
            [type |-> "response", text |-> outcome[c].text,
             commands |-> outcome[c].commands, request_id |-> request_id]

\* process_async has returned or raised: the handler sends the reply and goes
\* back to receive_json.  A send that raises inside the try is answered by
\* the send of the except block, which raises out of the loop.
WsReply(c, tts, send) ==
    /\ handler[c] = "processing"
    /\ pc[c] \in {"done", "error"}
    /\ IF send = "sent" THEN
           /\ sent' = [sent EXCEPT ![c] = Append(@, Reply(c, tts))]
           /\ handler' = [handler EXCEPT ![c] = "receiving"]
           /\ UNCHANGED << active_connections, handler_error >>
       ELSE IF send = "WebSocketDisconnect" THEN
           /\ active_connections' = Disconnect(active_connections, c)
           /\ handler' = [handler EXCEPT ![c] = "returned"]
           /\ handler_error' = [handler_error EXCEPT
                                   ![c] = [error |-> send, at |-> "send"]]
           /\ UNCHANGED sent
       ELSE
           /\ handler' = [handler EXCEPT ![c] = "raised"]
           /\ handler_error' = [handler_error EXCEPT
                                   ![c] = [error |-> send, at |-> "send"]]
           /\ UNCHANGED << active_connections, sent >>
    /\ pc' = [pc EXCEPT ![c] = "idle"]
    /\ messages' = [messages EXCEPT ![c] = << >>]
    /\ executed_commands' = [executed_commands EXCEPT ![c] = << >>]
    /\ response' = [response EXCEPT ![c] = NoResponse]
    /\ pending' = [pending EXCEPT ![c] = << >>]
    /\ tool_results' = [tool_results EXCEPT ![c] = << >>]
    /\ outcome' = [outcome EXCEPT ![c] = NoOutcome]
    /\ error' = [error EXCEPT ![c] = None]
    /\ turns' = [turns EXCEPT ![c] = << >>]
    /\ received' = [received EXCEPT ![c] = << >>]
    /\ dispatched' = [dispatched EXCEPT ![c] = << >>]
    /\ provider_calls' = [provider_calls EXCEPT ![c] = 0]
    /\ UNCHANGED << frames, request, device, executed, provider, controllers, clock,
                    last_status, context >>

\* WebSocket connections served on the one event loop
NextWs ==
    \E c \in Convs :
        \/ WsConnect(c)
        \/ \E event \in WsEvents, stt \in Transcriptions : WsReceive(c, event, stt)
        \/ \E n \in WsResponses(c) : ProviderReturns(c, n)
        \/ ProviderFails(c)
        \/ Dispatch(c)
        \/ \E tts \in {"synthesized", "raised"}, send \in SendOutcomes :
               WsReply(c, tts, send)

SpecWs == Init /\ [][NextWs]_vars

(***************************************************************************)
(* Properties of the orchestration loop                                    *)
(***************************************************************************)
\* The maximum number of turns the specification requires the loop to be
\* configured with
MaxTurns == 2

LastTurn(c) == turns[c][Len(turns[c])]

IsToolMessage(m) == m.role = "tool"

\* The tool-result entries held by Claude messages from position i on: the
\* content of each user message that follows an assistant message
RECURSIVE ClaudeEntries(_, _)
ClaudeEntries(msgs, i) ==
    IF i > Len(msgs) THEN << >>
    ELSE (IF i > 1 /\ msgs[i - 1].role = "assistant" /\ msgs[i].role = "user"
          THEN msgs[i].content ELSE << >>)
         \o ClaudeEntries(msgs, i + 1)

\* The tool-result entries of the message history, in history order
ToolResultEntries(c) ==
    IF provider = "openai" THEN SelectSeq(messages[c], IsToolMessage)
    ELSE ClaudeEntries(messages[c], 1)

EntryId(e) == IF "tool_call_id" \in DOMAIN e THEN e.tool_call_id ELSE e.tool_use_id

\* C1: a run makes at most MaxTurns provider calls, however often the provider
\* answers with tool-call requests (the loop is cut off by an iteration bound).
C1_TurnBound == \A c \in Convs : provider_calls[c] <= MaxTurns

\* C2: once the provider has answered k calls with tool-call requests and call
\* k+1 with a text, the run is done, it made exactly k+1 provider calls and the
\* outcome's text is the text of that last answer.
C2_TextEndsRun ==
    \A c \in Convs :
        (turns[c] # << >> /\ "text" \in DOMAIN LastTurn(c)) =>
            /\ pc[c] = "done"
            /\ "text" \in DOMAIN outcome[c]
            /\ outcome[c].text = LastTurn(c).text
            /\ provider_calls[c] = Len(turns[c])
            /\ \A i \in 1 .. Len(turns[c]) - 1 : "tool_calls" \in DOMAIN turns[c][i]

C2_Witness ==
    \E c \in Convs :
        /\ pc[c] = "done"
        /\ Len(turns[c]) = 3
        /\ provider_calls[c] = 3
        /\ outcome[c].text = "text_b"

C4_ToolResultsMatchRequests ==
    \A c \in Convs :
        pc[c] # "executing" =>
            LET entries == ToolResultEntries(c)
            IN  /\ Len(entries) = Len(received[c])
                /\ Len(dispatched[c]) = Len(received[c])
                /\ \A i \in DOMAIN received[c] :
                      /\ EntryId(entries[i]) = received[c][i].id
                      /\ dispatched[c][i].call = received[c][i]
                      /\ entries[i].content = JsonDumps(dispatched[c][i].result)

\* C5: a failed dispatch is data: no run ends with an exception raised by a tool
\* call, and when the provider is called again every request received so far
\* was dispatched.
C5_DispatchFailureIsData ==
    \A c \in Convs :
        /\ error[c] \in {None, "ProviderError"}
        /\ pc[c] \in {"awaiting", "done"} => Len(dispatched[c]) = Len(received[c])

\* C6: a run whose provider call failed has ended with that error and has
\* returned no outcome.
C6_ProviderFailurePropagates ==
    \A c \in Convs :
        (turns[c] # << >> /\ "failure" \in DOMAIN LastTurn(c)) =>
            /\ pc[c] = "error"
            /\ error[c] = LastTurn(c).failure
            /\ outcome[c] = NoOutcome

C6_Witness ==
    \E c \in Convs :
        /\ pc[c] = "error"
        /\ error[c] = "ProviderError"
        /\ Len(turns[c]) = 2
        /\ executed_commands[c] # << >>
        /\ outcome[c] = NoOutcome

(***************************************************************************)
(* Properties of dispatch and of the registry                              *)
(***************************************************************************)
\* Conversation c takes one iteration of the for loop in this step: its
\* _execute_tool call returns or raises
DispatchStep(c) ==
    /\ pc[c] = "executing"
    /\ pc'[c] = "error" \/ dispatched'[c] # dispatched[c]

\* The result of the _execute_tool call that returned in this step
NewResult(c) == dispatched'[c][Len(dispatched'[c])].result

\* A control_light call whose room is absent or names no light of the registry
RoomUnresolved(tool_call) ==
    /\ tool_call.name = "control_light"
    /\ "room" \notin DOMAIN tool_call.arguments \/ tool_call.arguments.room \notin Rooms

\* C7: dispatching control_light without a room, or with a room the registry
\* does not hold, raises nothing, returns an envelope with success = FALSE and
\* changes no device.
C7_UnresolvedRoomFails ==
    [][\A c \in Convs :
          (DispatchStep(c) /\ RoomUnresolved(Head(pending[c]))) =>
              /\ pc'[c] # "error"
              /\ ~NewResult(c).success
              /\ controllers' = controllers]_vars

\* C8: dispatching control_thermostat {action: set_mode, mode: cooling} raises
\* nothing, returns success = TRUE and leaves the thermostat in mode cooling;
\* dispatching a name that is no tool raises nothing, returns success = FALSE
\* and changes no device.
C8_DispatchRouting ==
    [][\A c \in Convs :
          DispatchStep(c) =>
              LET tool_call == Head(pending[c])
              IN  /\ (/\ tool_call.name = "control_thermostat"
                      /\ tool_call.arguments = [action |-> "set_mode", mode |-> "cooling"])
                     => /\ pc'[c] # "error"
                        /\ NewResult(c).success
                        /\ controllers'[LlmController].thermostat.mode = "cooling"
                  /\ tool_call.name \notin ToolNames
                     => /\ pc'[c] # "error"
                        /\ ~NewResult(c).success
                        /\ controllers' = controllers]_vars

C8_Witness ==
    \E c \in Convs :
        \E i, j \in DOMAIN dispatched[c] :
            /\ i < j
            /\ dispatched[c][i].call.name = "control_unknown"
            /\ ~dispatched[c][i].result.success
            /\ dispatched[c][j].call.name = "control_thermostat"
            /\ dispatched[c][j].result.success
            /\ controllers[LlmController].thermostat.mode = "cooling"

\* C9: a status read returns the device states of the registry that the
\* conversations' tool calls act on.
C9_StatusSeesToolCalls ==
    [][last_status' # last_status =>
          last_status' = GetAllStates(controllers'[LlmController])]_vars

C11_AwaitingBlocksNobody ==
    \A c \in Convs :
        pc[c] = "awaiting" =>
            \A d \in Convs \ {c} :
                /\ pc[d] = "executing" => Resumable(d)
                /\ (\A e \in Convs \ {c, d} : pc[e] # "executing") =>
                      /\ pc[d] = "idle" => ENABLED ConcStart(d)
                      /\ pc[d] = "awaiting" =>
                            /\ ENABLED ConcProviderReturns(d)
                            /\ ENABLED ConcProviderFails(d)

\* While c has been waiting for the answer to its second provider call, d made
\* its tool call and reached done
C11_Witness ==
    \E c, d \in Convs :
        /\ c # d
        /\ pc[c] = "awaiting"
        /\ Len(turns[c]) = 1
        /\ Len(dispatched[c]) = 1
        /\ dispatched[c][1].call.arguments.action = "set"
        /\ dispatched[c][1].result.success
        /\ pc[d] = "done"
        /\ Len(dispatched[d]) = 1
        /\ dispatched[d][1].call.arguments.action = "set"
        /\ dispatched[d][1].result.success
        /\ dispatched[d][1].result.data.alarm.created_at >
               dispatched[c][1].result.data.alarm.created_at

(***************************************************************************)
(* A device object used on its own: the calls of execute the device tests  *)
(* make on a freshly constructed Light, Alarm or Thermostat                *)
(***************************************************************************)
\* execute calls made on the one device object
MaxExecutes == 4

DeviceTypes == {"light", "alarm", "thermostat"}

\* Light(room="living_room"), Alarm(), Thermostat()
NewDevice(device_type) ==
    [device_type |-> device_type,
     state |-> CASE device_type = "light" -> Light("living_room")
                 [] device_type = "alarm" -> Alarm
                 [] device_type = "thermostat" -> Thermostat]

\* The actions each execute lists as supported
SupportedActions(device_type) ==
    CASE device_type = "light" -> {"on", "off", "set_brightness"}
      [] device_type = "alarm" -> {"set", "cancel", "list"}
      [] device_type = "thermostat" -> {"set_temp", "set_mode", "off"}

LightCommands ==
    {IoTCommand("light", action, EmptyDict) :
        action \in {"on", "off", "set_brightness", "blink"}}
    \cup {IoTCommand("light", "set_brightness", [brightness |-> v]) :
             v \in {Num(0 - 5), Num(0), Num(40), Num(150), Str("bright")}}

AlarmCommands ==
    {IoTCommand("alarm", action, EmptyDict) :
        action \in {"set", "cancel", "list", "snooze"}}
    \cup {IoTCommand("alarm", action, [time |-> t]) :
             action \in {"set", "cancel"}, t \in {"07:00", "08:00"}}

ThermostatCommands ==
    {IoTCommand("thermostat", action, EmptyDict) :
        action \in {"set_temp", "set_mode", "off", "boost"}}
    \cup {IoTCommand("thermostat", "set_temp", [temperature |-> v]) :
             v \in {Num(5), Num(25), Num(40), Str("50"), Str("warm")}}
    \cup {IoTCommand("thermostat", "set_mode", [mode |-> m]) :
             m \in {"off", "cooling", "turbo"}}

\* The commands given to a device of the type
Commands(device_type) ==
    CASE device_type = "light" -> LightCommands
      [] device_type = "alarm" -> AlarmCommands
      [] device_type = "thermostat" -> ThermostatCommands

\* BaseDevice.execute, dispatched on the class of the object
DeviceExecute(self, command, now) ==
    CASE self.device_type = "light" -> LightExecute(self.state, command)
      [] self.device_type = "alarm" -> AlarmExecute(self.state, command, now)
      [] self.device_type = "thermostat" -> ThermostatExecute(self.state, command)

InitDevices ==
    /\ InitServer
    /\ device \in {NewDevice(t) : t \in DeviceTypes}
    /\ executed = << >>

\* device.execute(command): the call returns a result or raises
Execute(command) ==
    /\ Len(executed) < MaxExecutes
    /\ LET r == DeviceExecute(device, command, clock)
       IN  /\ device' = [device EXCEPT !.state = r.dev]
           /\ executed' = Append(executed,
                  [command |-> command, before |-> device.state, after |-> r.dev,
                   raised |-> r.raised, error |-> r.error, result |-> r.result])
    /\ clock' = clock + 1
    /\ UNCHANGED << wsvars, request, provider, controllers, last_status, pc, context,
                    messages, executed_commands, response, pending, tool_results,
                    outcome, error, turns, received, dispatched, provider_calls >>

NextDevices == \E command \in Commands(device.device_type) : Execute(command)

SpecDevices == InitDevices /\ [][NextDevices]_vars

(***************************************************************************)
(* Properties of the devices                                               *)
(***************************************************************************)
\* The execute calls made so far on a device of the type
Calls(device_type) ==
    IF device.device_type = device_type THEN DOMAIN executed ELSE {}

\* The call was given the action with a value for the parameter
Gives(e, action, key) ==
    e.command.action = action /\ key \in DOMAIN e.command.parameters

\* C12: an execute call whose action the device does not support raises
\* nothing, returns success = FALSE and leaves the device as it was, for the
\* light, the alarm and the thermostat.
C12_UnsupportedActionFails ==
    \A t \in DeviceTypes : \A i \in Calls(t) :
        LET e == executed[i]
        IN  e.command.action \notin SupportedActions(t) =>
                /\ ~e.raised
                /\ ~e.result.success
                /\ e.after = e.before

C12_Witness ==
    \E i \in DOMAIN executed :
        /\ executed[i].command.action \notin SupportedActions(device.device_type)
        /\ executed[i].before # NewDevice(device.device_type).state
        /\ ~executed[i].result.success

\* C13: no execute call raises, whatever action and parameters the command
\* carries: every call returns a result.
C13_ExecuteNeverRaises == \A i \in DOMAIN executed : ~executed[i].raised

\* C14: set_brightness with an integer x stores min(100, max(0, x)) and leaves
\* the power off when the stored brightness is 0, on when it is greater.
C14_BrightnessClamped ==
    \A i \in Calls("light") :
        LET e == executed[i]
        IN  (Gives(e, "set_brightness", "brightness")
             /\ IsNumber(e.command.parameters.brightness)) =>
                LET x == e.command.parameters.brightness.num
                IN  /\ ~e.raised
                    /\ e.after.brightness = Min(100, Max(0, x))
                    /\ e.after.power = IF e.after.brightness = 0 THEN "off" ELSE "on"

C14_Witness ==
    \E i, j, k \in Calls("light") :
        /\ Gives(executed[i], "set_brightness", "brightness")
        /\ executed[i].command.parameters.brightness = Num(150)
        /\ executed[i].after.brightness = 100
        /\ Gives(executed[j], "set_brightness", "brightness")
        /\ executed[j].command.parameters.brightness = Num(0 - 5)
        /\ executed[j].before.power = "on"
        /\ executed[j].after.power = "off"
        /\ Gives(executed[k], "set_brightness", "brightness")
        /\ executed[k].after.brightness = 40

\* C15: from any state of a light, on returns success = TRUE and leaves power
\* on and brightness 100; off returns success = TRUE and leaves power off and
\* brightness 0.
C15_OnOff ==
    \A i \in Calls("light") :
        LET e == executed[i]
        IN  /\ e.command.action = "on" =>
                  /\ ~e.raised
                  /\ e.result.success
                  /\ e.after.power = "on"
                  /\ e.after.brightness = 100
            /\ e.command.action = "off" =>
                  /\ ~e.raised
                  /\ e.result.success
                  /\ e.after.power = "off"
                  /\ e.after.brightness = 0

C15_Witness ==
    \E i, j \in Calls("light") :
        /\ executed[i].command.action = "on"
        /\ executed[i].before.brightness = 40
        /\ executed[i].after.brightness = 100
        /\ executed[j].command.action = "off"
        /\ executed[j].before.power = "on"
        /\ executed[j].after.power = "off"

\* C16: set_temp with a temperature x stores target_temp = min(35, max(10, x));
\* a thermostat that was off is in mode auto afterwards, any other mode is
\* kept.
C16_TemperatureClamped ==
    \A i \in Calls("thermostat") :
        LET e == executed[i]
        IN  (Gives(e, "set_temp", "temperature")
             /\ FloatParses(e.command.parameters.temperature)) =>
                LET x == Float(e.command.parameters.temperature)
                IN  /\ ~e.raised
                    /\ e.after.target_temp = Min(35, Max(10, x))
                    /\ e.after.mode = IF e.before.mode = "off" THEN "auto"
                                      ELSE e.before.mode

C16_Witness ==
    \E i, j \in Calls("thermostat") :
        /\ Gives(executed[i], "set_temp", "temperature")
        /\ executed[i].command.parameters.temperature = Num(5)
        /\ executed[i].before.mode = "off"
        /\ executed[i].after.mode = "auto"
        /\ executed[i].after.target_temp = 10
        /\ Gives(executed[j], "set_temp", "temperature")
        /\ executed[j].before.mode = "cooling"
        /\ executed[j].after.mode = "cooling"
        /\ executed[j].after.target_temp = 35

\* C17: set_mode with one of off, heating, cooling, auto succeeds and leaves
\* the thermostat in that mode; with any other mode, or none, it returns
\* success = FALSE and leaves mode, target_temp and current_temp as they were.
C17_ModeValidated ==
    \A i \in Calls("thermostat") :
        LET e == executed[i]
            mode == Get(e.command.parameters, "mode", None)
        IN  e.command.action = "set_mode" =>
                /\ ~e.raised
                /\ IF mode \in {"off", "heating", "cooling", "auto"}
                   THEN e.result.success /\ e.after.mode = mode
                   ELSE ~e.result.success /\ e.after = e.before

C17_Witness ==
    \E i, j, k \in Calls("thermostat") :
        /\ i < j /\ j < k
        /\ executed[i].command = IoTCommand("thermostat", "set_mode", [mode |-> "cooling"])
        /\ executed[i].after.mode = "cooling"
        /\ executed[j].command = IoTCommand("thermostat", "set_mode", [mode |-> "turbo"])
        /\ ~executed[j].result.success
        /\ executed[k].command = IoTCommand("thermostat", "set_mode", EmptyDict)
        /\ ~executed[k].result.success
        /\ executed[k].after.mode = "cooling"

\* The alarms of the list whose time is t
AlarmsAt(alarms, t) == {n \in DOMAIN alarms : alarms[n].time = t}

\* C18: set(time = t) directly followed by cancel(time = t) succeeds on both
\* calls and leaves no alarm with time t; when the list was empty before the
\* set, it is empty after the cancel.
C18_SetCancelRoundTrip ==
    \A i \in Calls("alarm") :
        (/\ i + 1 \in DOMAIN executed
         /\ Gives(executed[i], "set", "time")
         /\ Gives(executed[i + 1], "cancel", "time")
         /\ executed[i].command.parameters.time =
                executed[i + 1].command.parameters.time) =>
            LET t == executed[i].command.parameters.time
                after == executed[i + 1].after.alarms
            IN  /\ ~executed[i].raised /\ executed[i].result.success
                /\ ~executed[i + 1].raised /\ executed[i + 1].result.success
                /\ AlarmsAt(after, t) = {}
                /\ executed[i].before.alarms = << >> => after = << >>

C18_Witness ==
    \E i \in Calls("alarm") :
        /\ i + 1 \in DOMAIN executed
        /\ Len(executed[i].before.alarms) = 1
        /\ executed[i].before.alarms[1].time = "08:00"
        /\ executed[i].command = IoTCommand("alarm", "set", [time |-> "07:00"])
        /\ executed[i].result.success
        /\ executed[i + 1].command = IoTCommand("alarm", "cancel", [time |-> "07:00"])
        /\ executed[i + 1].result.success
        /\ Len(executed[i + 1].after.alarms) = 1
        /\ executed[i + 1].after.alarms[1].time = "08:00"

\* The entries of alarms whose time is not t, in their order
Others(alarms, t) ==
    LET Kept(a) == a.time # t
    IN  SelectSeq(alarms, Kept)

\* C19: cancel(time = t) removes every alarm whose time is t and keeps the
\* others in their order; it succeeds exactly when it removed one; when no
\* alarm has time t it returns success = FALSE and the list is as it was.
C19_CancelRemovesAll ==
    \A i \in Calls("alarm") :
        LET e == executed[i]
        IN  Gives(e, "cancel", "time") =>
                LET t == e.command.parameters.time
                IN  /\ ~e.raised
                    /\ e.after.alarms = Others(e.before.alarms, t)
                    /\ e.result.success <=> AlarmsAt(e.before.alarms, t) # {}
                    /\ AlarmsAt(e.before.alarms, t) = {} => e.after = e.before

C19_Witness ==
    \E i \in Calls("alarm") :
        /\ Gives(executed[i], "cancel", "time")
        /\ Cardinality(AlarmsAt(executed[i].before.alarms,
                                executed[i].command.parameters.time)) = 2
        /\ Len(executed[i].before.alarms) = 3
        /\ executed[i].before.alarms[2].time = "08:00"
        /\ executed[i].result.success
        /\ Len(executed[i].after.alarms) = 1
        /\ executed[i].after.alarms[1].time = "08:00"

\* The alarms set and not cancelled by the first n calls, in the order they
\* were set
RECURSIVE SetAndNotCancelled(_)
SetAndNotCancelled(n) ==
    IF n = 0 THEN << >>
    ELSE LET e == executed[n]
             earlier == SetAndNotCancelled(n - 1)
         IN  IF e.raised \/ ~e.result.success THEN earlier
             ELSE IF e.command.action = "set"
                  THEN Append(earlier, e.result.data.alarm)
             ELSE IF e.command.action = "cancel"
                  THEN Others(earlier, e.command.parameters.time)
             ELSE earlier

\* C20: list returns success = TRUE with one entry per alarm set and not
\* cancelled, in the order they were set, and leaves the alarm list as it was.
C20_ListInInsertionOrder ==
    \A i \in Calls("alarm") :
        LET e == executed[i]
        IN  e.command.action = "list" =>
                /\ ~e.raised
                /\ e.result.success
                /\ e.result.data.alarms = SetAndNotCancelled(i - 1)
                /\ e.after = e.before

C20_Witness ==
    \E i \in Calls("alarm") :
        /\ executed[i].command.action = "list"
        /\ Len(executed[i].result.data.alarms) = 2
        /\ executed[i].result.data.alarms[1].time = "07:00"
        /\ executed[i].result.data.alarms[2].time = "08:00"
        /\ executed[i].result.data.alarms[1].created_at <
               executed[i].result.data.alarms[2].created_at

\* The command names an action that needs a parameter and does not carry it
LacksParameter(command) ==
    \E need \in { << "alarm", "set", "time" >>, << "alarm", "cancel", "time" >>,
                  << "thermostat", "set_temp", "temperature" >>,
                  << "thermostat", "set_mode", "mode" >>,
                  << "light", "set_brightness", "brightness" >> } :
        /\ command.device = need[1]
        /\ command.action = need[2]
        /\ need[3] \notin DOMAIN command.parameters

\* C21: an execute call whose command lacks the parameter its action needs
\* (alarm set or cancel without time, thermostat set_temp without temperature,
\* set_mode without mode, light set_brightness without brightness) returns
\* success = FALSE and leaves the device as it was.
C21_MissingParameterFails ==
    \A i \in DOMAIN executed :
        LET e == executed[i]
        IN  LacksParameter(e.command) =>
                /\ ~e.raised
                /\ ~e.result.success
                /\ e.after = e.before

(***************************************************************************)
(* Properties of status reads                                              *)
(***************************************************************************)
\* The fields the devices of a registry hold, read one by one
Held(self) ==
    [lights |-> [room \in DOMAIN self.lights |->
                    [room |-> self.lights[room].room,
                     power |-> self.lights[room].power,
                     brightness |-> self.lights[room].brightness]],
     alarm |-> [alarms |-> self.alarm.alarms],
     thermostat |-> [current_temp |-> self.thermostat.current_temp,
                     target_temp |-> self.thermostat.target_temp,
                     mode |-> self.thermostat.mode]]

\* C22: a status read is a pure read.  Dispatching get_device_status, and GET
\* /api/devices, leave every light, the alarm list and the thermostat of both
\* registries as they were and return the values the devices of the registry
\* read hold at that moment.
C22_StatusReadIsPure ==
    [][/\ \A c \in Convs :
             (DispatchStep(c) /\ Head(pending[c]).name = "get_device_status") =>
                 /\ pc'[c] # "error"
                 /\ controllers' = controllers
                 /\ NewResult(c).success
                 /\ NewResult(c).states = Held(controllers[LlmController])
       /\ last_status' # last_status =>
             /\ controllers' = controllers
             /\ last_status' = Held(controllers[RestController])]_vars

\* A status read was dispatched after the living room light was switched on
\* and returned it on
C22_Witness ==
    \E c \in Convs :
        \E i, j \in DOMAIN dispatched[c] :
            /\ i < j
            /\ dispatched[c][i].call.name = "control_light"
            /\ dispatched[c][i].result.success
            /\ dispatched[c][j].call.name = "get_device_status"
            /\ dispatched[c][j].result.states.lights["living_room"].power = "on"
            /\ controllers[LlmController].lights["living_room"].power = "on"
            /\ last_status # NoResponse

(***************************************************************************)
(* Properties of the tool catalog                                          *)
(***************************************************************************)
\* C23: the enums of the tool catalog are exactly what the dispatcher and the
\* devices accept: the rooms of control_light are the rooms of the registry, a
\* device knows an action exactly when the catalog of its tool lists it, and
\* set_mode succeeds exactly for the modes the catalog lists.
C23_CatalogMatchesDispatcher ==
    /\ ToolEnum("control_light", "room") = DOMAIN IoTController.lights
    /\ \A t \in DeviceTypes : \A i \in Calls(t) :
          LET e == executed[i]
          IN  /\ ~e.raised =>
                    (e.command.action \in ToolEnum(ToolOf(t), "action")
                         <=> e.result.message # "unknown_action")
              /\ Gives(e, "set_mode", "mode") =>
                    (e.command.parameters.mode \in ToolEnum("control_thermostat", "mode")
                         <=> e.result.success)

(***************************************************************************)
(* Properties of a run as a whole                                          *)
(***************************************************************************)
\* The registry after the first n of the calls, applied in order to a new
\* registry, the k-th at time k - 1
RECURSIVE Replayed(_, _)
Replayed(calls, n) ==
    IF n = 0 THEN IoTController
    ELSE ExecuteTool(Replayed(calls, n - 1), calls[n].call.name,
                     calls[n].call.arguments, n - 1).ctl

\* Conversation c is the only one that has dispatched tool calls
OnlyRun(c) == \A d \in Convs \ {c} : dispatched[d] = << >>

\* C24: device mutations are never rolled back: at every moment of a run, and
\* so when it has ended with a propagated error, the registry is the result of
\* applying the tool calls dispatched so far, in order.
C24_NoRollback ==
    \A c \in Convs :
        OnlyRun(c) =>
            controllers[LlmController] = Replayed(dispatched[c], Len(dispatched[c]))

\* A run ended with a provider error after it had switched a light on and set
\* the thermostat to cooling
C24_Witness ==
    \E c \in Convs :
        /\ pc[c] = "error"
        /\ error[c] = "ProviderError"
        /\ Len(dispatched[c]) >= 2
        /\ controllers[LlmController].lights["living_room"].power = "on"
        /\ controllers[LlmController].thermostat.mode = "cooling"

\* The tool-call requests of the first n normalised responses, in order
RECURSIVE Requested(_, _)
Requested(ts, n) ==
    IF n = 0 THEN << >>
    ELSE Requested(ts, n - 1)
         \o (IF "tool_calls" \in DOMAIN ts[n] THEN ts[n].tool_calls ELSE << >>)

\* What dispatching the k-th of the requests returns or raises, the earlier
\* ones applied in order to a new registry
Reference(requests, k) ==
    ExecuteTool(Replayed([i \in 1 .. k - 1 |-> [call |-> requests[i]]], k - 1),
                requests[k].name, requests[k].arguments, k - 1)

\* C25: what a run does is fixed by the normalised responses it was fed, the
\* same for the OpenAI and the Claude orchestrator: the tool calls dispatched
\* are the requests received, in order, each with the result the reference
\* dispatch gives; a run that is done dispatched them all and returns the text
\* of the last response and one command per request; a run that failed either
\* was fed a provider failure or stopped at the first request whose dispatch
\* raises, with that error.
C25_ProvidersEquivalent ==
    \A c \in Convs :
        OnlyRun(c) =>
            LET requests == Requested(turns[c], Len(turns[c]))
                done == Len(dispatched[c])
            IN  /\ done <= Len(requests)
                /\ \A k \in 1 .. done :
                      /\ dispatched[c][k].call = requests[k]
                      /\ ~Reference(requests, k).raised
                      /\ dispatched[c][k].result = Reference(requests, k).result
                /\ controllers[LlmController] = Replayed(dispatched[c], done)
                /\ pc[c] \in {"awaiting", "done"} => done = Len(requests)
                /\ pc[c] = "done" =>
                      outcome[c] =
                          LLMResponse(LastTurn(c).text,
                                      [k \in 1 .. done |->
                                          IoTCommand(StripControl(requests[k].name),
                                                     Get(requests[k].arguments,
                                                         "action", "unknown"),
                                                     requests[k].arguments)])
                /\ pc[c] = "error" =>
                      IF "failure" \in DOMAIN LastTurn(c)
                      THEN done = Len(requests) /\ error[c] = LastTurn(c).failure
                      ELSE /\ done < Len(requests)
                           /\ Reference(requests, done + 1).raised
                           /\ error[c] = Reference(requests, done + 1).error

\* A Claude run of two tool turns, one of them with a failing call, is done
C25_Witness ==
    \E c \in Convs :
        /\ provider = "claude"
        /\ pc[c] = "done"
        /\ Len(turns[c]) = 3
        /\ Len(dispatched[c]) = 3
        /\ \E k \in DOMAIN dispatched[c] : ~dispatched[c][k].result.success
        /\ controllers[LlmController] # IoTController
        /\ outcome[c].text = "text_a"

(***************************************************************************)
(* Properties of the chat endpoint                                         *)
(***************************************************************************)
\* The text process_async was called with: the content of the user message
\* that closes the seeded history
InputText(c) ==
    LET seed == SeedMessages(provider, "any", << >>)
    IN  messages[c][Len(seed)].content

\* The orchestrator was invoked for the chat request of conversation c
Invoked(c) == provider_calls[c] > 0

\* C26: a chat request without the input of its mode is rejected with an
\* error status and nothing is processed, and whatever the mode of a request
\* the orchestrator is invoked only with a text that is present and not empty.
C26_ChatInputValidated ==
    \A c \in Convs :
        request[c] # NoRequest =>
            /\ Invalid(request[c]) =>
                   /\ pc[c] = "rejected"
                   /\ error[c] = "HTTP_400"
                   /\ ~Invoked(c)
            /\ Invoked(c) => ~Not(InputText(c))

\* C30: every tool-call request of every response is dispatched, whatever
\* reason the response carries: while the run awaits the provider, and when
\* it is done, the tool calls dispatched are the requests received so far.
C30_ToolCallsAlwaysDispatched ==
    \A c \in Convs :
        pc[c] \in {"awaiting", "done"} =>
            LET requests == Requested(turns[c], Len(turns[c]))
            IN  /\ Len(dispatched[c]) = Len(requests)
                /\ \A i \in DOMAIN requests : dispatched[c][i].call = requests[i]

(***************************************************************************)
(* Properties of the message history                                       *)
(***************************************************************************)
\* s is a prefix of t
IsPrefix(s, t) == Len(s) <= Len(t) /\ \A i \in DOMAIN s : t[i] = s[i]

\* C27: the message history of a run is append-only: every step leaves the
\* messages it held in place and unaltered, so the history passed to a
\* provider call has the history passed to the call before it as a prefix.
C27_HistoryAppendOnly ==
    [][\A c \in Convs : IsPrefix(messages[c], messages'[c])]_vars

\* Two tool turns were closed and the third provider call is awaited, the
\* history holding the seed, both assistant messages and the tool results
C27_Witness ==
    \E c \in Convs :
        /\ pc[c] = "awaiting"
        /\ provider_calls[c] = 3
        /\ Len(dispatched[c]) = 3
        /\ Len(messages[c]) >= Len(SeedMessages(provider, "any", context[c])) + 4

\* The ids of the tool calls the assistant message m captured
CapturedIds(m) ==
    IF provider = "openai"
    THEN IF "tool_calls" \in DOMAIN m
         THEN {m.tool_calls[k].id : k \in DOMAIN m.tool_calls} ELSE {}
    ELSE {m.content[k].id : k \in {x \in DOMAIN m.content : m.content[x].type = "tool_use"}}

\* messages[c][i] holds tool results: a tool message of OpenAILLM, the user
\* message of ClaudeLLM that follows an assistant message
HoldsResults(c, i) ==
    IF provider = "openai" THEN messages[c][i].role = "tool"
    ELSE i > 1 /\ messages[c][i].role = "user" /\ messages[c][i - 1].role = "assistant"

\* The ids of the tool results messages[c][i] holds
ResultIds(c, i) ==
    IF provider = "openai" THEN {messages[c][i].tool_call_id}
    ELSE {messages[c][i].content[k].tool_use_id : k \in DOMAIN messages[c][i].content}

\* The position of the last assistant message before position i, 0 if none
LastAssistantBefore(c, i) ==
    LET before == {j \in 1 .. i - 1 : messages[c][j].role = "assistant"}
    IN  IF before = {} THEN 0 ELSE CHOOSE j \in before : \A k \in before : k <= j

\* C28: the assistant message of a tool turn is in the history before the
\* results of the turn and before the next provider call: every message
\* holding tool results comes after an assistant message with nothing but
\* results of the same turn in between, every result id is the id of a tool
\* call that assistant message captured, and while tool calls are executed or
\* the next provider call is awaited the assistant message of the last tool
\* turn is in the history with the ids of that turn's requests.
C28_AssistantMessagePrecedesResults ==
    \A c \in Convs :
        /\ \A i \in DOMAIN messages[c] :
              HoldsResults(c, i) =>
                  LET j == LastAssistantBefore(c, i)
                  IN  /\ j > 0
                      /\ \A k \in j + 1 .. i - 1 : HoldsResults(c, k)
                      /\ ResultIds(c, i) \subseteq CapturedIds(messages[c][j])
        /\ (pc[c] \in {"executing", "awaiting"} /\ received[c] # << >>) =>
              LET j == LastAssistantBefore(c, Len(messages[c]) + 1)
                  turn == LastTurn(c).tool_calls
              IN  /\ j > 0
                  /\ CapturedIds(messages[c][j]) = {turn[k].id : k \in DOMAIN turn}
                  /\ \A k \in j + 1 .. Len(messages[c]) : HoldsResults(c, k)

\* A second tool turn of two tool calls was closed: the history holds the
\* results 2 and 3 after the assistant message that captured them
C28_Witness ==
    \E c \in Convs :
        /\ pc[c] = "awaiting"
        /\ Len(turns[c]) = 2
        /\ Len(dispatched[c]) = 3
        /\ Len(LastTurn(c).tool_calls) = 2
        /\ \E i \in DOMAIN messages[c] : HoldsResults(c, i) /\ 3 \in ResultIds(c, i)

\* Provider calls of the run issued and not yet returned or failed
Outstanding(c) == provider_calls[c] - Len(turns[c])

\* C29: a run has at most one provider call outstanding, and none while it
\* executes tool calls; a provider call after the first is outstanding only
\* when every tool call received so far was dispatched and the history holds
\* the result of each, in order.
C29_ProviderCallsSequential ==
    \A c \in Convs :
        /\ Outstanding(c) \in {0, 1}
        /\ Outstanding(c) = 1 <=> pc[c] = "awaiting"
        /\ (Outstanding(c) = 1 /\ provider_calls[c] > 1) =>
              LET entries == ToolResultEntries(c)
              IN  /\ pending[c] = << >>
                  /\ Len(dispatched[c]) = Len(received[c])
                  /\ Len(entries) = Len(received[c])
                  /\ \A i \in DOMAIN received[c] :
                        /\ dispatched[c][i].call = received[c][i]
                        /\ EntryId(entries[i]) = received[c][i].id
                        /\ entries[i].content = JsonDumps(dispatched[c][i].result)

\* The second provider call is outstanding after a turn of three tool calls
C29_Witness ==
    \E c \in Convs :
        /\ pc[c] = "awaiting"
        /\ provider_calls[c] = 2
        /\ Len(turns[c]) = 1
        /\ Len(LastTurn(c).tool_calls) = 3
        /\ Len(dispatched[c]) = 3

(***************************************************************************)
(* Properties of the recorded commands                                     *)
(***************************************************************************)
\* The device types a control_<type> tool name of the model may carry
ControlTypes == DeviceTypes \cup {"unknown"}

\* The tool name control_<type>
ControlName(t) == IF t = "unknown" THEN "control_unknown" ELSE ToolOf(t)

\* C31: the command recorded for a tool call named control_<type> has the
\* device <type>, the parameters are the arguments of the call, and the action
\* is the action argument of the call; the i-th command recorded in a run is
\* the one of the i-th tool call dispatched.
C31_RecordedCommandOfControlTool ==
    \A c \in Convs :
        /\ Len(executed_commands[c]) = Len(dispatched[c])
        /\ \A i \in DOMAIN dispatched[c] :
              \A t \in ControlTypes :
                  dispatched[c][i].call.name = ControlName(t) =>
                      LET command == executed_commands[c][i]
                          arguments == dispatched[c][i].call.arguments
                      IN  /\ command.device = t
                          /\ command.parameters = arguments
                          /\ "action" \in DOMAIN arguments =>
                                 command.action = arguments.action

\* A run recorded the commands of a light, an alarm and a thermostat call,
\* the thermostat one with its action set_mode and its mode among the parameters
C31_Witness ==
    \E c \in Convs :
        /\ Len(executed_commands[c]) = 3
        /\ {executed_commands[c][i].device : i \in 1 .. 3} = DeviceTypes
        /\ \E i \in 1 .. 3 :
              /\ dispatched[c][i].call.name = "control_thermostat"
              /\ executed_commands[c][i].action = "set_mode"
              /\ executed_commands[c][i].parameters.mode = "cooling"

(***************************************************************************)
(* Invariants of the device objects                                        *)
(***************************************************************************)
\* The brightness of the light is in range and its power follows it
LightConsistent(self) ==
    /\ self.brightness \in 0 .. 100
    /\ self.power \in {"on", "off"}
    /\ self.power = "on" <=> self.brightness > 0

\* C33: in every state a light reaches, whatever commands it was given
\* (brightness values any integers, commands that fail or raise included),
\* brightness is within 0..100 and power is on exactly when brightness is
\* greater than 0.
C33_LightInvariant ==
    device.device_type = "light" =>
        /\ LightConsistent(device.state)
        /\ \A i \in DOMAIN executed : LightConsistent(executed[i].after)

\* A light that was switched on, dimmed to 40, given a brightness below 0 and
\* one above 100
C33_Witness ==
    /\ device.device_type = "light"
    /\ Len(executed) = 4
    /\ executed[1].command.action = "on"
    /\ executed[2].after.brightness = 40
    /\ executed[3].command.parameters = [brightness |-> Num(0 - 5)]
    /\ executed[3].after.power = "off"
    /\ executed[4].command.parameters = [brightness |-> Num(150)]
    /\ device.state = [room |-> "living_room", power |-> "on", brightness |-> 100]

\* C34: in every state a default-constructed thermostat reaches, mode is one
\* of off, heating, cooling, auto and target_temp is within 10..35; no command
\* changes current_temp; off succeeds from any state, leaves the mode off and
\* target_temp as it was; right after a set_temp that succeeded the mode is
\* not off.
C34_ThermostatInvariant ==
    device.device_type = "thermostat" =>
        /\ device.state.mode \in {"off", "heating", "cooling", "auto"}
        /\ device.state.target_temp \in 10 .. 35
        /\ device.state.current_temp = Thermostat.current_temp
        /\ \A i \in DOMAIN executed :
              LET e == executed[i]
              IN  /\ e.after.current_temp = e.before.current_temp
                  /\ e.command.action = "off" =>
                         /\ ~e.raised
                         /\ e.result.success
                         /\ e.after.mode = "off"
                         /\ e.after.target_temp = e.before.target_temp
                  /\ (e.command.action = "set_temp" /\ ~e.raised /\ e.result.success) =>
                         e.after.mode # "off"

\* A thermostat set to cooling and a target of 35, switched off with the
\* target kept, and switched on again by a set_temp
C34_Witness ==
    /\ device.device_type = "thermostat"
    /\ Len(executed) = 4
    /\ executed[1].after.mode = "cooling"
    /\ executed[2].command.action = "set_temp"
    /\ executed[2].after.target_temp = 35
    /\ executed[3].command.action = "off"
    /\ executed[3].after = [current_temp |-> 22, target_temp |-> 35, mode |-> "off"]
    /\ executed[4].command.action = "set_temp"
    /\ executed[4].result.success
    /\ device.state.mode = "auto"
    /\ device.state.target_temp = 10

(***************************************************************************)
(* Properties of the frame of a dispatch                                   *)
(***************************************************************************)
\* The lights of the registry self other than the one of room
OtherLights(self, room) == [r \in DOMAIN self.lights \ {room} |-> self.lights[r]]

\* C35: a dispatched tool call changes at most the device it targets, in the
\* registry it is dispatched on and in no other: control_light for room r
\* leaves the lights of the other rooms, the alarm and the thermostat as they
\* were, control_alarm all lights and the thermostat, control_thermostat all
\* lights and the alarm, any other tool name every device.
C35_DispatchFrame ==
    [][\A c \in Convs :
          DispatchStep(c) =>
              LET tool_call == Head(pending[c])
                  old == controllers[LlmController]
                  new == controllers'[LlmController]
              IN  /\ controllers'[RestController] = controllers[RestController]
                  /\ tool_call.name = "control_light" =>
                        /\ new.alarm = old.alarm
                        /\ new.thermostat = old.thermostat
                        /\ IF "room" \in DOMAIN tool_call.arguments
                           THEN OtherLights(new, tool_call.arguments.room)
                                    = OtherLights(old, tool_call.arguments.room)
                           ELSE new.lights = old.lights
                  /\ tool_call.name = "control_alarm" =>
                        /\ new.lights = old.lights
                        /\ new.thermostat = old.thermostat
                  /\ tool_call.name = "control_thermostat" =>
                        /\ new.lights = old.lights
                        /\ new.alarm = old.alarm
                  /\ tool_call.name \notin
                         {"control_light", "control_alarm", "control_thermostat"} =>
                        new = old]_vars

\* The living room light was switched on and the thermostat set to cooling by
\* two dispatched calls, the other lights and the alarm still as constructed
C35_Witness ==
    \E c \in Convs :
        /\ \E i, j \in DOMAIN dispatched[c] :
              /\ dispatched[c][i].call.name = "control_light"
              /\ dispatched[c][i].result.success
              /\ dispatched[c][j].call.name = "control_thermostat"
              /\ dispatched[c][j].result.success
        /\ controllers[LlmController].lights["living_room"].power = "on"
        /\ controllers[LlmController].thermostat.mode = "cooling"
        /\ OtherLights(controllers[LlmController], "living_room")
               = OtherLights(IoTController, "living_room")
        /\ controllers[LlmController].alarm = IoTController.alarm

Occurrences(order, c, k) == Cardinality({j \in 1 .. k : order[j] = c})

\* Tool calls dispatched so far by the conversations cs together
RECURSIVE TotalDispatched(_)
TotalDispatched(cs) ==
    IF cs = {} THEN 0
    ELSE LET c == CHOOSE x \in cs : TRUE
         IN  Len(dispatched[c]) + TotalDispatched(cs \ {c})

\* The total orders of all dispatched tool calls that keep the dispatch order
\* of every conversation: order[k] is the conversation whose next call comes k-th
TotalOrders ==
    {order \in [1 .. TotalDispatched(Convs) -> Convs] :
        \A c \in Convs :
            Occurrences(order, c, TotalDispatched(Convs)) = Len(dispatched[c])}

\* The dispatched calls laid out in the total order
InOrder(order) ==
    [k \in DOMAIN order |-> dispatched[order[k]][Occurrences(order, order[k], k)]]

\* C37: with several conversations running on the one registry, the state of
\* every device is at all times the result of applying the tool calls
\* dispatched so far one at a time, in a total order that keeps each
\* conversation's own order, and every call returned the result it has in
\* that order: no update is lost or applied in part.
C37_ConcurrentCallsSerializable ==
    \E order \in TotalOrders :
        LET calls == InOrder(order)
        IN  /\ controllers[LlmController] = Replayed(calls, Len(calls))
            /\ \A k \in DOMAIN calls :
                  calls[k].result =
                      ExecuteTool(Replayed(calls, k - 1), calls[k].call.name,
                                  calls[k].call.arguments, k - 1).result

\* Two conversations are done; one set the 07:00 alarm and dimmed the kitchen
\* light, the other cancelled the alarm in between
C37_Witness ==
    \E c, d \in Convs :
        /\ c # d
        /\ pc[c] = "done"
        /\ pc[d] = "done"
        /\ Len(dispatched[c]) = 2
        /\ dispatched[c][1].call.arguments.action = "set"
        /\ dispatched[c][2].call.name = "control_light"
        /\ Len(dispatched[d]) = 1
        /\ dispatched[d][1].call.arguments.action = "cancel"
        /\ dispatched[d][1].result.success
        /\ controllers[LlmController].alarm.alarms = << >>
        /\ controllers[LlmController].lights["kitchen"].brightness = 40

(***************************************************************************)
(* Properties of the caller's context                                      *)
(***************************************************************************)
\* C38: process_async leaves the context list of its caller alone: when the
\* run starts the list holds the messages the history was seeded with between
\* the system prompt and the user message, and from then on, whether the run
\* goes on, returns or fails, it holds the same messages in the same order.
C38_ContextUntouched ==
    [][\A c \in Convs :
          /\ (pc[c] = "idle" /\ pc'[c] # "idle") =>
                LET seeded == messages'[c]
                IN  seeded = SeedMessages(provider, seeded[Len(seeded)].content,
                                          context'[c])
          /\ pc[c] # "idle" => context'[c] = context[c]]_vars

\* Runs given one earlier message as context: one returned after two tool
\* turns, its history grown well past the context
C38_Witness ==
    \E c \in Convs :
        /\ pc[c] = "done"
        /\ Len(turns[c]) = 3
        /\ context[c] = << [role |-> "user", content |-> "earlier"] >>
        /\ Len(messages[c]) >= Len(context[c]) + 5

(***************************************************************************)
(* Properties of the WebSocket endpoint                                    *)
(***************************************************************************)
\* Every message the handler of c received has its reply: one reply per
\* message, in order, of type response or error, with the request_id of the
\* message when it gave one
Answered(c) ==
    /\ Len(sent[c]) = Len(frames[c])
    /\ \A i \in DOMAIN sent[c] :
          /\ sent[c][i].type \in {"response", "error"}
          /\ "request_id" \in DOMAIN frames[c][i] =>
                 sent[c][i].request_id = frames[c][i].request_id

\* The handler of c ended because a send on the socket raised
SendFailed(c) == handler_error[c] # NoError /\ handler_error[c].at = "send"

\* C32: every message received on a WebSocket gets exactly one reply, a
\* response or an error, with its request_id: never more replies than
\* messages, and whenever the handler is not processing a message (and no
\* send has failed) every message received has its reply; when processing a
\* message has failed, the reply sent is an error and the handler goes on to
\* receive the next message.
C32_EveryMessageAnswered ==
    [][\A c \in Convs :
          /\ Len(sent'[c]) <= Len(frames'[c])
          /\ (handler'[c] # "processing" /\ ~SendFailed(c)') => Answered(c)'
          /\ (handler[c] = "processing" /\ pc[c] = "error" /\ sent'[c] # sent[c]) =>
                /\ sent'[c][Len(sent'[c])].type = "error"
                /\ handler'[c] = "receiving"]_vars

\* C39: a WebSocket is in active_connections only while its handler runs:
\* once handle_websocket has returned or raised, whatever ended it, the
\* connection is no longer in the list.
C39_ConnectionsOfRunningHandlers ==
    \A i \in DOMAIN active_connections :
        handler[active_connections[i]] \in {"receiving", "processing"}

====
